---------------------------- MODULE Spec2Model ----------------------------
(***************************************************************************)
(* A model of curtiles (src/curtiles/__init__.py): the CTiles engine loop, *)
(* its Worker threads, the capacity-1 queues between them, the Tile        *)
(* load/toggle life cycle and the Grid used by CTiles.arrange.             *)
(*                                                                         *)
(* Python values are represented as follows.                               *)
(*   None / a value      : None == <<>>, Some(v) == <<v>>                  *)
(*   a text line         : a sequence of one-character strings             *)
(*   a list of lines     : a sequence of lines                             *)
(*   a compiled pattern  : the sequence of characters it searches for      *)
(*   Grid.data           : the set of cells <<row, col>> holding 1         *)
(*   queue.Queue(1)      : a sequence of items, oldest first, together     *)
(*                         with its unfinished_tasks counter               *)
(***************************************************************************)
EXTENDS Integers, Sequences, FiniteSets, TLC

VARIABLES
    config,      \* the validated configuration [border, tiles], and the sizes
                 \* the terminal takes during the run
    term,        \* <<height, width>> terminal.getmaxyx() returned last
    cur,         \* <<self.current_height, self.current_width>>
    epc,         \* where CTiles.__call__ is
    li,          \* index of the slab the load loop of the frame is at
    alist,       \* slabs the running arrangement pass has still to place
    aret,        \* which call of arrange is running: "init", "resize", "key"
    grid,        \* the Grid of the running (or last) arrangement pass
    placed,      \* slabs positioned by the running (or last) pass
    paused,      \* the local `paused` of CTiles.__call__
    exc,         \* the exception CTiles.__call__ is raising, or "none"
    slabs,       \* the Tile objects
    queues,      \* the items of each tile's Queue(1)
    unfinished,  \* Queue.unfinished_tasks of each queue (one per put)
    workers,     \* the Worker threads: [pc, paused, stopped] and their
                 \* history [late]
    frame,       \* history of the running iteration of `while True:`
    lastGot,     \* history: number of the last payload each Tile.load obtained
    halted,      \* history: a halt effect paused the engine, and the pause
                 \* key has not been pressed since
    drawn,       \* the addnstr requests the Tile.update calls of the last
                 \* step of CTiles.__call__ made, in order
    ev           \* history: what the last step did

vars == <<config, term, cur, epc, li, alist, aret, grid, placed, paused, exc,
          slabs, queues, unfinished, workers, frame, lastGot, halted, drawn, ev>>

---------------------------------------------------------------------------
(* Bounds of the model *)

\* generator calls each Worker makes at most
MaxPub == 2

(* Program constants *)

\* Queue(1): the maxsize of every tile's queue
QueueMaxsize == 1

---------------------------------------------------------------------------
(* Python idiom *)

None == <<>>
Some(v) == <<v>>
IsNone(o) == o = <<>>
Val(o) == o[1]

Max(a, b) == IF a >= b THEN a ELSE b
Min(a, b) == IF a <= b THEN a ELSE b

\* re.search(key, line): the pattern occurs somewhere in the line
ReSearch(key, line) ==
    \E i \in 1..(Len(line) - Len(key) + 1) :
        SubSeq(line, i, i + Len(key) - 1) = key

\* [x] * n
Repeat(x, n) == [i \in 1..Max(n, 0) |-> x]

---------------------------------------------------------------------------
(* CTiles.Stylist *)

\* xlate_color_for.get(token, 0), for the colors of curses
ColorFor(token) ==
    CASE token = "BLACK" -> 0 [] token = "RED" -> 1 [] token = "GREEN" -> 2
      [] token = "YELLOW" -> 3 [] token = "BLUE" -> 4 [] token = "MAGENTA" -> 5
      [] token = "CYAN" -> 6 [] token = "WHITE" -> 7 [] OTHER -> 0

\* xlate_attr_for.get(token, 0): curses.A_NORMAL, curses.A_BOLD
AttrFor(token) ==
    CASE token = "NORMAL" -> 0 [] token = "BOLD" -> 2097152 [] OTHER -> 0

\* Stylist.translate: the two colors and the attribute of a token list
Translate(tokens) ==
    [colors |-> << IF Len(tokens) > 0 THEN ColorFor(tokens[1]) ELSE 0,
                   IF Len(tokens) > 1 THEN ColorFor(tokens[2]) ELSE 0 >>,
     attr   |-> IF Len(tokens) > 2 THEN AttrFor(tokens[3]) ELSE 0]

\* curses.color_pair(n)
ColorPair(n) == n * 256

\* the Stylist before its first registration: self.index = 1, no pair
\* initialised; history: `issued`, the handle given to each request
StylistNew == [index |-> 1, pairs |-> <<>>, issued |-> <<>>]

\* curses.init_pair(self.index, *colors); the handle
\* curses.color_pair(self.index) | attr; self.index += 1
Register(st, key, tokens) ==
    [index  |-> st.index + 1,
     pairs  |-> Append(st.pairs, Translate(tokens).colors),
     issued |-> Append(st.issued,
                       [key |-> key, style |-> tokens,
                        handle |-> ColorPair(st.index) + Translate(tokens).attr])]

\* the loop over conf.items(), from entry i on; the entries of a conf are its
\* keys whose value is a list
RECURSIVE RegisterFrom(_, _, _)
RegisterFrom(st, conf, i) ==
    IF i > Len(conf) THEN st
    ELSE RegisterFrom(Register(st, conf[i].key, conf[i].style), conf, i + 1)

\* Stylist.__init__: the registrations of the global style
StylistInit(conf) == RegisterFrom(StylistNew, conf, 1)

\* self.database after Stylist.__init__; merge and update leave it as it is
DatabaseOf(conf) ==
    [key \in { conf[i].key : i \in 1..Len(conf) } |->
        LET i == CHOOSE i \in 1..Len(conf) : conf[i].key = key
        IN StylistInit(conf).issued[i].handle]

\* Stylist.merge: the registrations of a tile's style
StylistMerge(st, conf) == RegisterFrom(st, conf, 1)

\* the traits of an action table whose value is a list
ActionStyles(action) ==
    LET lists == SelectSeq(action, LAMBDA a : ~IsNone(a.effect.background))
    IN [i \in 1..Len(lists) |->
          [key |-> "background", style |-> Val(lists[i].effect.background)]]

\* Stylist.update: the registrations of a tile's action table
StylistUpdate(st, action) == RegisterFrom(st, ActionStyles(action), 1)

\* `for tile in self.tiles:` of CTiles.__call__, from tile t on: merge, then
\* update
RECURSIVE StylistTiles(_, _, _)
StylistTiles(st, tiles, t) ==
    IF t > Len(tiles) THEN st
    ELSE StylistTiles(StylistUpdate(StylistMerge(st, tiles[t].style),
                                    tiles[t].action),
                      tiles, t + 1)

\* the Stylist when the Workers are started
StylistSetup(cfg) == StylistTiles(StylistInit(cfg.style), cfg.tiles, 1)

---------------------------------------------------------------------------
(* Configurations the validator accepts *)

\* a style: its keys whose value is a color/attribute list, in dict order
StyleDemo == << [key |-> "background", style |-> <<"WHITE", "BLUE">>],
                [key |-> "title", style |-> <<"BLUE", "WHITE">>] >>

\* a style without colors
StyleNone == <<>>

\* an effect record of an action table; a key that is absent is None
Effect(bg, halt, exit) == [background |-> bg, halt |-> halt, exit |-> exit]

LineOk    == <<"o", "k">>
LineError == <<"a", "E", "R", "R">>
LineBye   == <<"B", "Y", "E">>

\* generator results: a list of lines
PayEmpty == <<>>
PayOk    == <<LineOk>>
PayError == <<LineOk, LineError>>
PayBye   == <<LineBye>>
PayBoth  == <<LineBye, LineError>>

\* a titled tile with a toggle key, whose action table halts on one pattern
\* and exits on another
TileA ==
    [title  |-> Some(<<"T">>),
     key    |-> Some("h"),
     height |-> 1,
     width  |-> 1,
     has_border |-> FALSE,
     style  |-> << [key |-> "title", style |-> <<"BLUE", "WHITE">>] >>,
     action |-> << [pattern |-> <<"E", "R", "R">>,
                    effect  |-> Effect(None, Some(TRUE), None)],
                   [pattern |-> <<"B", "Y">>,
                    effect  |-> Effect(None, None, Some(TRUE))] >>,
     gen    |-> {PayEmpty, PayOk, PayError, PayBye, PayBoth}]

\* sizes terminal.getmaxyx() returns in the course of a run of the engine
TermSizes == { <<1, 1>>, <<3, 3>> }

\* one tile, with and without the global border
Configs ==
    { [border |-> b, style |-> StyleDemo, tiles |-> <<TileA>>, sizes |-> TermSizes] :
        b \in BOOLEAN }

LineNop == <<"n", "o", "p">>
PayNop  == <<LineNop>>

\* a tile whose action table names halt and exit with the value False
TileInert ==
    [TileA EXCEPT !.action = << [pattern |-> <<"n", "o", "p">>,
                                 effect  |-> Effect(None, Some(FALSE), Some(FALSE))] >>,
                  !.gen = {PayOk, PayNop}]

\* configurations at the edge of what the validator accepts: a style without
\* `background`, and an action table with false values
EdgeConfigs ==
    { [border |-> FALSE, style |-> StyleNone, tiles |-> <<TileA>>, sizes |-> TermSizes],
      [border |-> FALSE, style |-> StyleDemo, tiles |-> <<TileInert>>, sizes |-> TermSizes] }

\* a tile of a given geometry and nothing else, as is_valid_ completes it
Slab(height, width) ==
    [title  |-> None,
     key    |-> None,
     height |-> height,
     width  |-> width,
     has_border |-> FALSE,
     style  |-> StyleNone,
     action |-> <<>>,
     gen    |-> {}]

\* the largest terminal height and width of the arrangement passes checked
MaxGridDim == 3

\* the largest tile height and width of the arrangement passes checked
MaxTileDim == 2

SlabShapes == { Slab(h, w) : h \in 1..MaxTileDim, w \in 1..MaxTileDim }

\* four tiles that leave a 4 x 4 terminal with one place inside it for the
\* last of them, and places over the bottom edge
GridScenarios ==
    { [border |-> FALSE, style |-> StyleDemo,
       tiles |-> << Slab(1, 3), Slab(1, 2), Slab(2, 1), Slab(3, 1) >>,
       sizes |-> {<<4, 4>>}] }

\* two or three tiles of any shape on a terminal of any size that stays as it
\* is, and the scenarios above
GridConfigs ==
    { [border |-> b, style |-> StyleDemo, tiles |-> tl, sizes |-> {<<h, w>>}] :
        b \in BOOLEAN,
        tl \in (SlabShapes \X SlabShapes) \cup (SlabShapes \X SlabShapes \X SlabShapes),
        h \in 1..MaxGridDim, w \in 1..MaxGridDim }
    \cup GridScenarios

N == Len(config.tiles)
Tiles == 1..N

\* the keys of `togglers`
ToggleKeys == { Val(config.tiles[t].key) : t \in { u \in Tiles : ~IsNone(config.tiles[u].key) } }

\* togglers[key]: the last tile configured with the key
Toggler(key) ==
    CHOOSE t \in Tiles :
        /\ config.tiles[t].key = Some(key)
        /\ \A u \in Tiles : config.tiles[u].key = Some(key) => u <= t

\* what terminal.getch() returns: -1 ("none"), Command.QUIT, Command.TOGGLE_HALT
\* ("space"), a toggle key, or a key bound to nothing
Keys == {"none", "Q", "space", "other"} \cup ToggleKeys

---------------------------------------------------------------------------
(* CTiles.Grid *)

\* Grid.__init__
GridInit(height, width, border) ==
    [data       |-> {},
     rows       |-> height,
     cols       |-> width,
     has_border |-> border,
     height     |-> IF border THEN height - 2 ELSE height,
     width      |-> IF border THEN width - 2 ELSE width]

\* the cells of data[r_index][c_index:c_end]
RowSlice(g, r_index, c_index, c_end) ==
    { <<r_index, c>> : c \in c_index..(Min(c_end, g.cols) - 1) }

RECURSIVE InquireRows(_, _, _, _, _, _)
InquireRows(g, ypos, xpos, slab, row, loss) ==
    IF row >= slab.height THEN Some(loss)
    ELSE LET r_index == row + ypos IN
         IF r_index >= g.rows
         THEN InquireRows(g, ypos, xpos, slab, row + 1, loss + slab.width)
         ELSE LET c_index    == Max(xpos, 0)
                  c_end      == xpos + slab.width
                  collisions == Cardinality(RowSlice(g, r_index, c_index, c_end)
                                            \cap g.data)
                  overhang   == slab.width - Max(g.cols - c_index, 0)
              IN IF collisions > 0 THEN None
                 ELSE InquireRows(g, ypos, xpos, slab, row + 1, loss + overhang)

\* Grid.inquire: None, or Some(loss)
Inquire(g, ypos, xpos, slab) == InquireRows(g, ypos, xpos, slab, 0, 0)

BorderOffset(g) == IF g.has_border THEN 1 ELSE 0

\* the inner loop of Grid.search: the columns of one row from col on
RECURSIVE SearchCols(_, _, _, _, _)
SearchCols(g, slab, row, col, positions) ==
    IF col >= g.width THEN positions
    ELSE LET loss == Inquire(g, row, col, slab) IN
         IF IsNone(loss) THEN SearchCols(g, slab, row, col + 1, positions)
         ELSE LET p == Append(positions,
                              [ypos |-> row + BorderOffset(g),
                               xpos |-> col + BorderOffset(g),
                               loss |-> Val(loss)])
              IN IF Val(loss) = 0 THEN p
                 ELSE SearchCols(g, slab, row, col + 1, p)

\* the outer loop of Grid.search: the rows from row on
RECURSIVE SearchRows(_, _, _, _)
SearchRows(g, slab, row, positions) ==
    IF row >= g.height THEN positions
    ELSE LET p == SearchCols(g, slab, row, 0, positions) IN
         IF Len(p) > 0 /\ p[Len(p)].loss = 0 THEN p
         ELSE SearchRows(g, slab, row + 1, p)

\* a sort that puts the last of the positions of least loss first
FirstOfSorted_Last(positions) ==
    LET i == CHOOSE i \in 1..Len(positions) :
                 /\ \A j \in 1..Len(positions) : positions[i].loss <= positions[j].loss
                 /\ \A j \in (i + 1)..Len(positions) : positions[j].loss > positions[i].loss
    IN positions[i]

\* sorted(positions, key=loss)[0]: the sort is stable
FirstOfSorted(positions) ==
    LET i == CHOOSE i \in 1..Len(positions) :
                 /\ \A j \in 1..Len(positions) : positions[i].loss <= positions[j].loss
                 /\ \A j \in 1..(i - 1) : positions[j].loss > positions[i].loss
    IN positions[i]

\* Grid.search: None, or Some([ypos, xpos, loss])
Search(g, slab) ==
    LET positions == SearchRows(g, slab, 0, <<>>) IN
    IF Len(positions) > 0 THEN Some(FirstOfSorted(positions)) ELSE None

\* the cells Grid.reserve visits that lie in data
ReserveCells(g, slab) ==
    { <<row, col>> : row \in slab.ypos..(slab.ypos + slab.height - 1),
                     col \in slab.xpos..(slab.xpos + slab.width - 1) }
    \cap { <<row, col>> : row \in 0..(g.rows - 1), col \in 0..(g.cols - 1) }

\* Grid.reserve raises AssertionError
ReserveRaises(g, slab) == ReserveCells(g, slab) \cap g.data # {}

\* Grid.reserve, when it does not raise
Reserve(g, slab) == [g EXCEPT !.data = g.data \cup ReserveCells(g, slab)]

---------------------------------------------------------------------------
(* CTiles.Tile *)

\* Tile.__init__
TileInit == [lines |-> <<>>, memory |-> None, loaded |-> FALSE, ypos |-> 0, xpos |-> 0]

\* Tile.visible
Visible(tile) == IsNone(tile.memory)

\* the slab as Grid reads it: height, width, ypos, xpos
Geometry(tile, c) ==
    [height |-> c.height, width |-> c.width, ypos |-> tile.ypos, xpos |-> tile.xpos]

\* Tile.position
TilePosition(tile, ypos, xpos) == [tile EXCEPT !.ypos = ypos, !.xpos = xpos]

\* a loop over the table that goes on to the end and returns the result of
\* the last key that some line matches
ActionFrom_Last(action, lines, k) ==
    LET hits == { j \in k..Len(action) :
                    \E i \in 1..Len(lines) : ReSearch(action[j].pattern, lines[i]) }
    IN IF hits = {} THEN None
       ELSE Some(action[CHOOSE j \in hits : \A h \in hits : h <= j].effect)

\* the loop over self.action.items() in Tile.load: the result of the first key,
\* in table order, that some line matches
RECURSIVE ActionFrom(_, _, _)
ActionFrom(action, lines, k) ==
    IF k > Len(action) THEN None
    ELSE IF \E i \in 1..Len(lines) : ReSearch(action[k].pattern, lines[i])
         THEN Some(action[k].effect)
         ELSE ActionFrom(action, lines, k + 1)

\* the line buffer Tile.load builds from a payload
LoadedLines(tile, c, payload) ==
    IF Len(payload) > 0
    THEN (IF IsNone(c.title) THEN <<>> ELSE <<Val(c.title)>>) \o payload
    ELSE tile.lines

\* a get that waits for an item
LoadBlocks_Get(q) == Len(q) = 0

\* self.queue.get_nowait() never waits
LoadBlocks(q) == FALSE

\* a Tile.load that reads the item and leaves it in the queue
TileLoad_Peek(tile, q, c) ==
    IF ~IsNone(tile.memory) \/ q = <<>>
    THEN [tile |-> tile, queue |-> q, effect |-> None, got |-> None]
    ELSE LET item  == Head(q)
             lines == LoadedLines(tile, c, item.lines)
         IN [tile   |-> [tile EXCEPT !.loaded = TRUE, !.lines = lines],
             queue  |-> q,
             effect |-> ActionFrom(c.action, lines, 1),
             got    |-> Some(item)]

\* a Tile.load that does not look at `memory`
TileLoad_Hidden(tile, q, c) ==
    IF q = <<>>
    THEN [tile |-> tile, queue |-> q, effect |-> None, got |-> None]
    ELSE [tile   |-> [tile EXCEPT !.loaded = TRUE,
                                  !.lines = LoadedLines(tile, c, Head(q).lines)],
          queue  |-> Tail(q),
          effect |-> ActionFrom(c.action, LoadedLines(tile, c, Head(q).lines), 1),
          got    |-> Some(Head(q))]

\* Tile.load: the tile and queue afterwards, the effect returned, the item taken
TileLoad(tile, q, c) ==
    IF ~IsNone(tile.memory) \/ q = <<>>
    THEN [tile |-> tile, queue |-> q, effect |-> None, got |-> None]
    ELSE LET item  == Head(q)
             lines == LoadedLines(tile, c, item.lines)
         IN [tile   |-> [tile EXCEPT !.loaded = TRUE, !.lines = lines],
             queue  |-> Tail(q),
             effect |-> ActionFrom(c.action, lines, 1),
             got    |-> Some(item)]

\* a Tile.toggle that shows the tile without taking its lines back
TileToggle_KeepBlank(tile, q, c) ==
    IF ~tile.loaded
    THEN [tile |-> tile, queue |-> q, effect |-> None, got |-> None]
    ELSE IF IsNone(tile.memory)
    THEN [tile   |-> [tile EXCEPT !.memory = Some(tile.lines),
                                  !.lines = Repeat(<<" ">>, c.height)],
          queue  |-> q, effect |-> None, got |-> None]
    ELSE TileLoad([tile EXCEPT !.memory = None], q, c)

\* Tile.toggle (what Tile.update draws is not part of the state)
TileToggle(tile, q, c) ==
    IF ~tile.loaded
    THEN [tile |-> tile, queue |-> q, effect |-> None, got |-> None]
    ELSE IF IsNone(tile.memory)
    THEN [tile   |-> [tile EXCEPT !.memory = Some(tile.lines),
                                  !.lines = Repeat(<<" ">>, c.height)],
          queue  |-> q, effect |-> None, got |-> None]
    ELSE TileLoad([tile EXCEPT !.lines = Val(tile.memory), !.memory = None], q, c)

\* the characters re's \\s matches, among those the payloads are made of
Whitespace == {" ", "\t"}

\* re.sub(r'\\s', " ", line): every whitespace character becomes a space
ReSubSpace(line) ==
    [i \in 1..Len(line) |-> IF line[i] \in Whitespace THEN " " ELSE line[i]]

\* line[0:n]: a negative n counts from the end of the line
PySlice(line, n) ==
    IF n >= 0 THEN SubSeq(line, 1, Min(n, Len(line)))
    ELSE SubSeq(line, 1, Max(Len(line) + n, 0))

\* terminal.addnstr(y, x, str, n) as a request to the terminal
Addnstr(y, x, str, n) == [y |-> y, x |-> x, str |-> str, n |-> n]

\* the characters addnstr puts out: at most n of str, all of it when n < 0
Written(req) == IF req.n < 0 THEN Len(req.str) ELSE Min(req.n, Len(req.str))

\* the cells the request covers
Covers(req) == { <<req.y, req.x + i>> : i \in 0..(Written(req) - 1) }

\* curses.error: the start is off the window, or the text runs into or past
\* the lower right corner of a window that does not scroll
AddnstrRaises(req, size) ==
    \/ req.y \notin 0..(size[1] - 1)
    \/ req.x \notin 0..(size[2] - 1)
    \/ req.y * size[2] + req.x + Written(req) >= size[1] * size[2]

\* a try block around a run of requests: those made up to the first that
\* raises, and whether none raised
TryAll(reqs, size) ==
    LET bad == { i \in 1..Len(reqs) : AddnstrRaises(reqs[i], size) }
        k   == IF bad = {} THEN Len(reqs) ELSE CHOOSE i \in bad : \A j \in bad : i <= j
    IN [reqs |-> SubSeq(reqs, 1, k), ok |-> bad = {}]

\* first_line, title_line, middle_line and last_line of Tile.draw_background
BorderLine(left, fill, right, max_x_length) ==
    <<left>> \o Repeat(fill, max_x_length - 2) \o <<right>>

\* Tile.draw_background: the requests it makes, and its return value
TileDrawBackground(tile, c, size, min_y, max_y, max_x_length) ==
    IF c.has_border
    THEN TryAll(
           << Addnstr(min_y, tile.xpos,
                      BorderLine("tl", "horz", "tr", max_x_length), max_x_length) >>
           \o [i \in 1..Max(max_y - min_y - 1, 0) |->
                 Addnstr(min_y + i, tile.xpos,
                         IF i = 2
                         THEN BorderLine("ltee", "horz", "rtee", max_x_length)
                         ELSE BorderLine("vert", " ", "vert", max_x_length),
                         max_x_length)]
           \o << Addnstr(max_y, tile.xpos,
                         BorderLine("bl", "horz", "br", max_x_length), max_x_length) >>,
           size)
    ELSE TryAll(
           [i \in 1..Max(max_y - min_y + 1, 0) |->
              Addnstr(min_y + i - 1, tile.xpos, Repeat(" ", max_x_length),
                      max_x_length)],
           size)

\* the text of row line_i of the tile before it is cut to max_x_length
UpdateLine(tile, c, line_i, max_x_length) ==
    LET line   == IF line_i < Len(tile.lines)
                  THEN ReSubSpace(tile.lines[line_i + 1]) ELSE <<".">>
        padded == line \o Repeat(" ", max_x_length - Len(line))
    IN IF /\ line_i = 0 /\ IsNone(tile.memory)
          /\ ~IsNone(c.title) /\ ~IsNone(c.key)
          /\ Len(padded) >= 3 + Len(Val(c.title))
       THEN SubSeq(padded, 1, Len(padded) - 3) \o <<"[", Val(c.key), "]">>
       ELSE padded

\* the loop over range(min_y, max_y + 1) of Tile.update: row 1 of a titled
\* tile with a border is left to the border
UpdateRows(tile, c, min_y, max_y, min_x, max_x_length) ==
    LET skip == ~IsNone(c.title) /\ c.has_border
        rows == SelectSeq([i \in 1..(max_y - min_y + 1) |-> i - 1],
                          LAMBDA r : ~(r = 1 /\ skip))
    IN [j \in 1..Len(rows) |->
          Addnstr(min_y + rows[j], min_x,
                  PySlice(UpdateLine(tile, c,
                                     IF skip /\ rows[j] > 1 THEN rows[j] - 1 ELSE rows[j],
                                     max_x_length),
                          max_x_length),
                  max_x_length)]

\* the part of Tile.update after draw_background returned bg
UpdateOver(tile, c, bg, min_y, max_y, min_x, max_x_length) ==
    IF ~bg.ok \/ max_x_length = 0 \/ min_y > max_y
    THEN bg.reqs
    ELSE bg.reqs \o UpdateRows(tile, c, min_y, max_y, min_x, max_x_length)

\* Tile.update for rows min_y..max_y and max_x_length columns
UpdateIn(tile, c, size, min_y, max_y, max_x_length) ==
    UpdateOver(tile, c,
               TileDrawBackground(tile, c, size, min_y, max_y, max_x_length),
               IF c.has_border THEN min_y + 1 ELSE min_y,
               IF c.has_border THEN max_y - 1 ELSE max_y,
               IF c.has_border THEN tile.xpos + 1 ELSE tile.xpos,
               IF c.has_border THEN max_x_length - 2 ELSE max_x_length)

\* Tile.update: the addnstr requests it makes on a terminal of the given
\* size, in order (the markup argument is left out)
TileUpdate(tile, c, size) ==
    UpdateIn(tile, c, size, tile.ypos,
             Min(tile.ypos + c.height - 1, size[1] - 3),
             Min(c.width, size[2] - 1 - tile.xpos))

\* `self.update(terminal)` at the end of Tile.toggle, for the tile as the
\* toggle left it
ToggleDraws(tile, c, size) ==
    IF tile.loaded THEN TileUpdate(tile, c, size) ELSE <<>>

\* `grid.reserve(slab)` for the slab the second slab.toggle returned as `shown`
ArrangeReserve(g, c, shown) ==
    LET slab   == Geometry(shown.tile, c)
        raises == ReserveRaises(g, slab)
    IN [tile |-> shown.tile, queue |-> shown.queue,
        effect |-> shown.effect, got |-> shown.got,
        grid |-> IF raises THEN g ELSE Reserve(g, slab),
        positioned |-> TRUE, raises |-> raises,
        drawn |-> ToggleDraws(shown.tile, c, <<g.rows, g.cols>>)]

\* `if location is None: continue`, else slab.position, slab.toggle and
\* grid.reserve, for the slab the first slab.toggle returned as `hid`
ArrangeAt(g, c, hid, location) ==
    IF IsNone(location)
    THEN [tile |-> hid.tile, queue |-> hid.queue, effect |-> None, got |-> None,
          grid |-> g, positioned |-> FALSE, raises |-> FALSE, drawn |-> <<>>]
    ELSE ArrangeReserve(g, c,
             TileToggle(TilePosition(hid.tile, Val(location).ypos, Val(location).xpos),
                        hid.queue, c))

\* `location = grid.search(slab)` and what follows it
ArrangeSearch(g, c, hid) == ArrangeAt(g, c, hid, Search(g, Geometry(hid.tile, c)))

\* the requests of the first slab.toggle, drawn before those of the rest of
\* the round, r
ArrangeDrawn(first, r) == [r EXCEPT !.drawn = first \o r.drawn]

\* the body of the loop of CTiles.arrange for one slab
ArrangeSlab(g, tile, q, c) ==
    ArrangeDrawn(ToggleDraws(TileToggle(tile, q, c).tile, c, <<g.rows, g.cols>>),
                 ArrangeSearch(g, c, TileToggle(tile, q, c)))

---------------------------------------------------------------------------
(* History of the last step *)

Ev(op, t, r, applied) ==
    [op      |-> op,
     t       |-> t,
     got     |-> IF IsNone(r.got) THEN 0 ELSE Val(r.got).seq,
     lines   |-> IF IsNone(r.got) THEN None ELSE Some(Val(r.got).lines),
     pub     |-> IF t = 0 THEN 0 ELSE unfinished[t],
     prev    |-> IF t = 0 THEN 0 ELSE lastGot[t],
     effect  |-> r.effect,
     applied |-> applied]

Nothing == [effect |-> None, got |-> None]
NoEv == [op |-> "none", t |-> 0, got |-> 0, lines |-> None, pub |-> 0,
         prev |-> 0, effect |-> None, applied |-> FALSE]

\* a step of Worker.run
WorkerEv(op, t) == [NoEv EXCEPT !.op = op, !.t = t]

\* the payloads taken from each queue and whether Tile.update has drawn, since
\* the top of `while True:`
FrameInit == [taken |-> [t \in Tiles |-> 0], rendered |-> FALSE]

\* the frame after a Tile.load or Tile.toggle that returned r for slab t
Taken(fr, t, r) ==
    IF IsNone(r.got) THEN fr
    ELSE [fr EXCEPT !.taken[t] = fr.taken[t] + 1]

Got(t, r) == IF IsNone(r.got) THEN lastGot
             ELSE [lastGot EXCEPT ![t] = Val(r.got).seq]

---------------------------------------------------------------------------
(* CTiles.Worker: run, stop, toggle *)

\* Worker.__init__; history: `late` counts the puts made after stop()
WorkerInit == [pc |-> "loop", paused |-> FALSE, stopped |-> FALSE, late |-> 0]

\* Worker.toggle
WorkerToggle(w) == [w EXCEPT !.paused = ~w.paused]

\* Worker.stop
WorkerStop(w) == [w EXCEPT !.stopped = TRUE]

\* a loop that does not look at the paused flag
WorkerLoopNext_IgnorePause(w) == IF w.stopped THEN "join" ELSE "check"

\* a loop that does not look at the stopped flag
WorkerLoopNext_IgnoreStop(w) == IF w.paused THEN "sleep" ELSE "check"

\* `while not self.stopped:` and `if self.paused: time.sleep(1); continue`
WorkerLoopNext(w) ==
    IF w.stopped THEN "join" ELSE IF w.paused THEN "sleep" ELSE "check"

\* a Worker that never drops the unread item
WorkerCheckNext_NoEvict(q) == "gen"

\* `if not self.queue.empty():`
WorkerCheckNext(q) == IF Len(q) > 0 THEN "get" ELSE "gen"

\* Queue.put blocks while the queue is full
PutBlocks(q) == Len(q) >= QueueMaxsize

\* Queue.get blocks while the queue is empty
GetBlocks(q) == Len(q) = 0

\* Queue.join blocks while unfinished_tasks is not zero
JoinBlocks(u) == u > 0

\* the top of the loop: a tick starts, after time.sleep(self.frequency) at
\* "loop" or after the time.sleep(1) of a skipped tick at "sleep"
WorkerLoop(t) ==
    /\ workers[t].pc \in {"loop", "sleep"}
    /\ workers' = [workers EXCEPT ![t].pc = WorkerLoopNext(workers[t])]
    /\ ev' = WorkerEv(IF workers[t].pc = "sleep" THEN "wake" ELSE "tick", t)
    /\ UNCHANGED <<config, term, cur, epc, li, alist, aret, grid, placed, paused,
                   exc, slabs, queues, unfinished, frame, lastGot, halted,
                   drawn>>

WorkerCheck(t) ==
    /\ workers[t].pc = "check"
    /\ workers' = [workers EXCEPT ![t].pc = WorkerCheckNext(queues[t])]
    /\ ev' = WorkerEv("check", t)
    /\ UNCHANGED <<config, term, cur, epc, li, alist, aret, grid, placed, paused,
                   exc, slabs, queues, unfinished, frame, lastGot, halted,
                   drawn>>

\* self.queue.get(): the stale item is dropped
WorkerGet(t) ==
    /\ workers[t].pc = "get"
    /\ ~GetBlocks(queues[t])
    /\ queues' = [queues EXCEPT ![t] = Tail(queues[t])]
    /\ workers' = [workers EXCEPT ![t].pc = "gen"]
    /\ ev' = WorkerEv("drop", t)
    /\ UNCHANGED <<config, term, cur, epc, li, alist, aret, grid, placed, paused,
                   exc, slabs, unfinished, frame, lastGot, halted,
                   drawn>>

\* self.generator() returns and self.queue.put(...) takes its result, then
\* time.sleep(self.frequency); the call is in flight while pc = "gen"
WorkerPut(t) ==
    /\ workers[t].pc = "gen"
    /\ unfinished[t] < MaxPub
    /\ ~PutBlocks(queues[t])
    /\ \E payload \in config.tiles[t].gen :
           queues' = [queues EXCEPT ![t] =
                         Append(queues[t], [seq |-> unfinished[t] + 1,
                                            lines |-> payload])]
    /\ unfinished' = [unfinished EXCEPT ![t] = unfinished[t] + 1]
    /\ workers' = [workers EXCEPT ![t].pc = "loop",
                                  ![t].late = IF workers[t].stopped
                                              THEN workers[t].late + 1
                                              ELSE workers[t].late]
    /\ ev' = WorkerEv("put", t)
    /\ UNCHANGED <<config, term, cur, epc, li, alist, aret, grid, placed, paused,
                   exc, slabs, frame, lastGot, halted,
                   drawn>>

\* self.queue.join() returns, and run() with it
WorkerJoin(t) ==
    /\ workers[t].pc = "join"
    /\ ~JoinBlocks(unfinished[t])
    /\ workers' = [workers EXCEPT ![t].pc = "done"]
    /\ ev' = WorkerEv("join", t)
    /\ UNCHANGED <<config, term, cur, epc, li, alist, aret, grid, placed, paused,
                   exc, slabs, queues, unfinished, frame, lastGot, halted,
                   drawn>>

---------------------------------------------------------------------------
(* CTiles.__call__ and CTiles.arrange *)

\* a list of every slab, hidden ones included
VisibleFrom_All(sl, t) == [i \in 1..(Len(sl) - t + 1) |-> t + i - 1]

\* `[p for p in slabs if p.visible]`
RECURSIVE VisibleFrom(_, _)
VisibleFrom(sl, t) ==
    IF t > Len(sl) THEN <<>>
    ELSE (IF Visible(sl[t]) THEN <<t>> ELSE <<>>) \o VisibleFrom(sl, t + 1)

\* `for slab in slabs: slab.update(terminal)`, from slab t on
RECURSIVE UpdateFrom(_, _, _)
UpdateFrom(sl, size, t) ==
    IF t > Len(sl) THEN <<>>
    ELSE TileUpdate(sl[t], config.tiles[t], size) \o UpdateFrom(sl, size, t + 1)

\* a loop whose frames load whether paused or not
LoopTop_Always(p) == "load"

\* the top of `while True:` : the frame loads unless paused
LoopTop(p) == IF p THEN "getch" ELSE "load"

\* `'background' in stylist.database`
HasBackground == "background" \in DOMAIN DatabaseOf(config.style)

\* terminal.bkgd(stylist.database['background']) raises KeyError
BkgdRaises == ~HasBackground

\* where __call__ goes on after terminal.bkgd(stylist.database['background'])
AfterBkgd(next) == IF BkgdRaises THEN "finally" ELSE next

\* where __call__ goes on when the pass called for `ret` is over: the passes
\* of a frame are followed by terminal.bkgd(stylist.database['background'])
AfterArrange(ret) ==
    IF ret = "init" THEN LoopTop(FALSE)
    ELSE AfterBkgd(IF ret = "resize" THEN "getch" ELSE LoopTop(FALSE))

\* the exception raised when the pass called for `ret` is over
ExcAfterArrange(ret) ==
    IF ret # "init" /\ BkgdRaises THEN "KeyError" ELSE exc

\* terminal.getmaxyx(): the size the user has given the terminal by now
GetMaxYX == \E size \in config.sizes : term' = size

\* the first lines of CTiles.arrange: the grid, the visible slabs
StartArrange(sl, ret) ==
    /\ grid' = GridInit(term'[1], term'[2], config.border)
    /\ alist' = VisibleFrom(sl, 1)
    /\ placed' = {}
    /\ aret' = ret
    /\ epc' = IF VisibleFrom(sl, 1) = <<>> THEN AfterArrange(ret) ELSE "arrange"
    /\ exc' = IF VisibleFrom(sl, 1) = <<>> THEN ExcAfterArrange(ret) ELSE exc
    /\ li' = 1

\* self.draw_background(terminal); self.arrange(terminal, slabs), before `try:`
EngineBegin ==
    /\ epc = "begin"
    /\ GetMaxYX
    /\ StartArrange(slabs, "init")
    /\ ev' = Ev("begin", 0, Nothing, FALSE)
    /\ drawn' = <<>>
    /\ UNCHANGED <<config, cur, paused, slabs, queues, unfinished,
                   workers, frame, lastGot, halted>>

\* what one round of the loop of CTiles.arrange leaves, r being its result
\* for slab t
Arranged(t, r) ==
    /\ slabs' = [slabs EXCEPT ![t] = r.tile]
    /\ queues' = [queues EXCEPT ![t] = r.queue]
    /\ grid' = r.grid
    /\ placed' = IF r.positioned THEN placed \cup {t} ELSE placed
    /\ lastGot' = Got(t, r)
    /\ ev' = Ev("arrange", t, r, FALSE)
    /\ drawn' = r.drawn
    /\ frame' = Taken(frame, t, r)
    /\ IF r.raises
       THEN /\ exc' = "AssertionError"
            /\ epc' = IF aret = "init" THEN "done" ELSE "finally"
            /\ alist' = alist
       ELSE /\ exc' = IF Tail(alist) = <<>> THEN ExcAfterArrange(aret) ELSE exc
            /\ alist' = Tail(alist)
            /\ epc' = IF Tail(alist) = <<>> THEN AfterArrange(aret) ELSE "arrange"

\* one round of the loop of CTiles.arrange
EngineArrange ==
    /\ epc = "arrange"
    /\ ~LoadBlocks(queues[Head(alist)])
    /\ Arranged(Head(alist),
                ArrangeSlab(grid, slabs[Head(alist)], queues[Head(alist)],
                            config.tiles[Head(alist)]))
    /\ UNCHANGED <<config, term, cur, li, aret, paused, unfinished, workers,
                   halted>>

Has(effect, trait) == ~IsNone(effect) /\ ~IsNone(Val(effect)[trait])

\* `action = slab.load()` and the lines applying the action, r being what
\* slab.load() did
Loaded(r) ==
    /\ slabs' = [slabs EXCEPT ![li] = r.tile]
    /\ frame' = Taken(IF li = 1 THEN FrameInit ELSE frame, li, r)
    /\ queues' = [queues EXCEPT ![li] = r.queue]
    /\ lastGot' = Got(li, r)
    /\ ev' = Ev("load", li, r, TRUE)
    /\ drawn' = <<>>
    /\ paused' = IF Has(r.effect, "halt") THEN TRUE ELSE paused
    /\ halted' = IF Has(r.effect, "halt") THEN TRUE ELSE halted
    /\ IF Has(r.effect, "exit") \/ li = N
       THEN epc' = "render" /\ li' = 1
       ELSE epc' = "load" /\ li' = li + 1

\* one round of `for slab in slabs: action = slab.load() ...`
EngineLoad ==
    /\ epc = "load"
    /\ ~LoadBlocks(queues[li])
    /\ Loaded(TileLoad(slabs[li], queues[li], config.tiles[li]))
    /\ UNCHANGED <<config, term, cur, alist, aret, grid, placed, exc, unfinished,
                   workers>>

\* `for slab in slabs: slab.update(terminal)`, then screen_size_changed and,
\* when it changed, draw_background and the first lines of arrange; else refresh
EngineRender ==
    /\ epc = "render"
    /\ ev' = Ev("render", 0, Nothing, FALSE)
    /\ frame' = [frame EXCEPT !.rendered = TRUE]
    /\ GetMaxYX
    /\ drawn' = UpdateFrom(slabs, term', 1)
    /\ IF cur # term'
       THEN /\ cur' = term'
            /\ StartArrange(slabs, "resize")
       ELSE /\ epc' = "getch"
            /\ UNCHANGED <<cur, grid, alist, placed, aret, li, exc>>
    /\ UNCHANGED <<config, paused, slabs, queues, unfinished, workers,
                   lastGot, halted>>

\* a dispatch that toggles tiles while the engine is paused
KeyToggles_WhilePaused(p, key) == key \in ToggleKeys

\* `if not paused: if key_char in togglers:`
KeyToggles(p, key) == ~p /\ key \in ToggleKeys

\* workers[ndex].toggle(); slabs[ndex].toggle(terminal); draw_background and
\* the first lines of arrange, r being what slabs[ndex].toggle did
Toggled(ndex, r) ==
    /\ workers' = [workers EXCEPT ![ndex] = WorkerToggle(workers[ndex])]
    /\ slabs' = [slabs EXCEPT ![ndex] = r.tile]
    /\ queues' = [queues EXCEPT ![ndex] = r.queue]
    /\ lastGot' = Got(ndex, r)
    /\ ev' = Ev("toggle", ndex, r, FALSE)
    /\ frame' = Taken(frame, ndex, r)
    /\ GetMaxYX
    /\ drawn' = ToggleDraws(r.tile, config.tiles[ndex], term')
    /\ StartArrange(slabs', "key")

\* key_char = terminal.getch() and the dispatch of the key
EngineGetch(key) ==
    /\ epc = "getch"
    /\ IF key = "Q"
       THEN /\ epc' = "finally"
            /\ ev' = Ev("quit", 0, Nothing, FALSE)
            /\ drawn' = <<>>
            /\ UNCHANGED <<exc, term, paused, slabs, queues, workers, lastGot, grid,
                           alist, placed, aret, li, halted, frame>>
       ELSE IF key = "space"
       THEN /\ paused' = ~paused
            /\ halted' = FALSE
            /\ epc' = IF paused THEN AfterBkgd(LoopTop(FALSE)) ELSE LoopTop(TRUE)
            /\ exc' = IF paused /\ BkgdRaises THEN "KeyError" ELSE exc
            /\ ev' = Ev("pause", 0, Nothing, FALSE)
            /\ drawn' = <<>>
            /\ frame' = FrameInit
            /\ UNCHANGED <<term, slabs, queues, workers, lastGot, grid, alist,
                           placed, aret, li>>
       ELSE IF KeyToggles(paused, key)
       THEN /\ ~LoadBlocks(queues[Toggler(key)])
            /\ Toggled(Toggler(key),
                       TileToggle(slabs[Toggler(key)], queues[Toggler(key)],
                                  config.tiles[Toggler(key)]))
            /\ UNCHANGED <<paused, halted>>
       ELSE /\ epc' = LoopTop(paused)
            /\ ev' = Ev("key", 0, Nothing, FALSE)
            /\ drawn' = <<>>
            /\ frame' = FrameInit
            /\ UNCHANGED <<exc, term, paused, slabs, queues, workers, lastGot, grid,
                           alist, placed, aret, li, halted>>
    /\ UNCHANGED <<config, cur, unfinished>>

\* `finally: for worker in workers: worker.stop()`
EngineFinally ==
    /\ epc = "finally"
    /\ workers' = [t \in Tiles |-> WorkerStop(workers[t])]
    /\ epc' = "done"
    /\ ev' = Ev("finally", 0, Nothing, FALSE)
    /\ drawn' = <<>>
    /\ UNCHANGED <<config, term, cur, li, alist, aret, grid, placed, paused, exc,
                   slabs, queues, unfinished, frame, lastGot, halted>>

---------------------------------------------------------------------------

\* the state when the Workers are started, for a configuration of cfgs
Start(cfgs) ==
    /\ config \in cfgs
    /\ term = <<0, 0>>
    /\ cur = <<0, 0>>
    /\ epc = "begin"
    /\ li = 1
    /\ alist = <<>>
    /\ aret = "init"
    /\ grid = GridInit(0, 0, FALSE)
    /\ placed = {}
    /\ paused = FALSE
    /\ exc = "none"
    /\ slabs = [t \in Tiles |-> TileInit]
    /\ queues = [t \in Tiles |-> <<>>]
    /\ unfinished = [t \in Tiles |-> 0]
    /\ workers = [t \in Tiles |-> WorkerInit]
    /\ frame = FrameInit
    /\ lastGot = [t \in Tiles |-> 0]
    /\ halted = FALSE
    /\ drawn = <<>>
    /\ ev = NoEv

Init == Start(Configs)

Next ==
    \/ EngineBegin
    \/ EngineArrange
    \/ EngineLoad
    \/ EngineRender
    \/ \E key \in Keys : EngineGetch(key)
    \/ EngineFinally
    \/ \E t \in Tiles : WorkerLoop(t)
    \/ \E t \in Tiles : WorkerCheck(t)
    \/ \E t \in Tiles : WorkerGet(t)
    \/ \E t \in Tiles : WorkerPut(t)
    \/ \E t \in Tiles : WorkerJoin(t)

\* the engine with its Workers
Spec == Init /\ [][Next]_vars

InitEdge == Start(EdgeConfigs)

\* the engine with its Workers, for the configurations EdgeConfigs
SpecEdge == InitEdge /\ [][Next]_vars

---------------------------------------------------------------------------
(* Arrangement passes on their own: the pass at startup over fresh tiles,   *)
(* and the pass of a later frame over tiles that are loaded, some of them   *)
(* hidden by their toggle key.                                              *)

\* a tile that loaded an empty payload
TileLoaded == [TileInit EXCEPT !.loaded = TRUE]

\* a loaded tile after Tile.toggle hid it
TileHidden(c) == TileToggle(TileLoaded, <<>>, c).tile

InitGrid ==
    /\ config \in GridConfigs
    /\ term = <<0, 0>>
    /\ cur = <<0, 0>>
    /\ \/ /\ epc = "begin"
          /\ slabs = [t \in Tiles |-> TileInit]
          /\ workers = [t \in Tiles |-> WorkerInit]
       \/ /\ epc = "render"
          /\ \E hidden \in SUBSET Tiles :
                /\ slabs = [t \in Tiles |-> IF t \in hidden
                                            THEN TileHidden(config.tiles[t])
                                            ELSE TileLoaded]
                /\ workers = [t \in Tiles |-> IF t \in hidden
                                              THEN WorkerToggle(WorkerInit)
                                              ELSE WorkerInit]
    /\ li = 1
    /\ alist = <<>>
    /\ aret = "init"
    /\ grid = GridInit(0, 0, FALSE)
    /\ placed = {}
    /\ paused = FALSE
    /\ exc = "none"
    /\ queues = [t \in Tiles |-> <<>>]
    /\ unfinished = [t \in Tiles |-> 0]
    /\ frame = FrameInit
    /\ lastGot = [t \in Tiles |-> 0]
    /\ halted = FALSE
    /\ drawn = <<>>
    /\ ev = NoEv

NextGrid ==
    \/ EngineBegin
    \/ EngineRender
    \/ EngineArrange
    \/ EngineFinally

SpecGrid == InitGrid /\ [][NextGrid]_vars

\* the loop of CTiles.arrange run to its end over the slabs `list` of sl: the
\* slabs afterwards, the grid, the slabs positioned, whether reserve raised
RECURSIVE ArrangePass(_, _, _, _)
ArrangePass(g, sl, list, done) ==
    IF list = <<>>
    THEN [slabs |-> sl, grid |-> g, placed |-> done, raised |-> FALSE]
    ELSE LET t == Head(list)
             r == ArrangeSlab(g, sl[t], queues[t], config.tiles[t])
             d == IF r.positioned THEN done \cup {t} ELSE done
         IN IF r.raises
            THEN [slabs |-> [sl EXCEPT ![t] = r.tile], grid |-> g,
                  placed |-> d, raised |-> TRUE]
            ELSE ArrangePass(r.grid, [sl EXCEPT ![t] = r.tile], Tail(list), d)

---------------------------------------------------------------------------
(* Tile.update on its own: one tile of any shape, with or without a border,  *)
(* a title and a toggle key, left at any position by an earlier pass, drawn  *)
(* by the update loop of a frame on a terminal of any size.                  *)

\* the largest terminal height and width Tile.update is checked on
MaxScreen == 5

\* the largest tile height and width Tile.update is checked with
MaxDrawDim == 3

\* the largest ypos and xpos Tile.update is checked at
MaxPos == 2

PayText   == << <<"a", "b", "c", "d">> >>
PaySpaced == << <<"a", " ", " ", "b">>, <<"\t", "c">> >>

DrawTile(title, key, height, width, border) ==
    [title  |-> title,
     key    |-> key,
     height |-> height,
     width  |-> width,
     has_border |-> border,
     style  |-> StyleNone,
     action |-> <<>>,
     gen    |-> {PayText, PaySpaced}]

RenderConfigs ==
    { [border |-> FALSE,
       style  |-> StyleDemo,
       tiles  |-> << DrawTile(title, key, h, w, b) >>,
       sizes  |-> {<<rows, cols>>}] :
        title \in {None, Some(<<"T">>)}, key \in {None, Some("h")},
        h \in 1..MaxDrawDim, w \in 1..MaxDrawDim, b \in BOOLEAN,
        rows \in 1..MaxScreen, cols \in 1..MaxScreen }

\* the tile before its first load, after the load of a payload, and hidden
\* by its toggle key after that
TileStates(tile, c) ==
    {tile}
    \cup { TileLoad(tile, <<[seq |-> 1, lines |-> p]>>, c).tile : p \in c.gen }
    \cup { TileToggle(TileLoad(tile, <<[seq |-> 1, lines |-> p]>>, c).tile,
                      <<>>, c).tile : p \in c.gen }

InitRender ==
    /\ config \in RenderConfigs
    /\ term \in config.sizes
    /\ cur = term
    /\ epc = "render"
    /\ \E ypos \in 0..MaxPos, xpos \in 0..MaxPos :
          \E tile \in TileStates(TilePosition(TileInit, ypos, xpos), config.tiles[1]) :
              /\ slabs = <<tile>>
              /\ workers = << IF Visible(tile) THEN WorkerInit
                              ELSE WorkerToggle(WorkerInit) >>
    /\ li = 1
    /\ alist = <<>>
    /\ aret = "init"
    /\ grid = GridInit(0, 0, FALSE)
    /\ placed = {}
    /\ paused = FALSE
    /\ exc = "none"
    /\ queues = [t \in Tiles |-> <<>>]
    /\ unfinished = [t \in Tiles |-> 0]
    /\ frame = FrameInit
    /\ lastGot = [t \in Tiles |-> 0]
    /\ halted = FALSE
    /\ drawn = <<>>
    /\ ev = NoEv

NextRender == EngineRender

SpecRender == InitRender /\ [][NextRender]_vars

---------------------------------------------------------------------------
(* Claims *)

\* the cells [ypos, ypos+height) x [xpos, xpos+width) of slab t
Footprint(t) ==
    { <<row, col>> :
        row \in slabs[t].ypos..(slabs[t].ypos + config.tiles[t].height - 1),
        col \in slabs[t].xpos..(slabs[t].xpos + config.tiles[t].width - 1) }

\* C1: during and after every arrangement pass, with or without a global
\* border, no two slabs the pass positioned (and handed to Grid.reserve) have
\* footprints that share a cell.
C1_PlacedDisjoint ==
    \A t \in placed : \A u \in placed :
        t # u => Footprint(t) \cap Footprint(u) = {}

\* C2: a Worker that is neither paused nor stopped is never blocked for good
\* in the discard-stale step (its queue.get() waiting on a queue that only
\* the Worker itself fills) or in the publish step (its put finding the queue
\* full), whatever the Engine's drains do in between.
C2_WorkerNeverStuck ==
    \A t \in Tiles :
        (~workers[t].paused /\ ~workers[t].stopped) =>
            /\ ~(workers[t].pc = "get" /\ GetBlocks(queues[t]))
            /\ ~(workers[t].pc = "gen" /\ PutBlocks(queues[t]))

\* C3: every queue holds at most one item, and from the moment the Worker
\* calls its generator to its put the queue is empty, so the put never blocks.
C3_AtMostOneItem ==
    \A t \in Tiles :
        /\ Len(queues[t]) <= 1
        /\ workers[t].pc = "gen" => queues[t] = <<>>

\* C3 witness: the Worker published twice and the Engine has drained nothing,
\* so the first item was dropped unread before the second put.
C3_Witness ==
    \E t \in Tiles :
        unfinished[t] = 2 /\ lastGot[t] = 0 /\ Len(queues[t]) = 1

\* C4: a payload that Tile.load obtains is the Worker's most recent publish,
\* and no payload is obtained twice (each drain returns a newer one than the
\* drain before).
C4_LoadGetsNewest ==
    ev.got # 0 => (ev.got = ev.pub /\ ev.got > ev.prev)

\* C4 witness: a load obtained the second publish while the first was never
\* obtained by any load.
C4_Witness == ev.op = "load" /\ ev.got = 2 /\ ev.prev = 0

\* C5: when Tile.load returns an effect containing exit during a frame, the
\* main loop terminates: the Engine goes on to its finally clause and runs no
\* further frame.
C5_ExitEndsLoop ==
    (ev.op = "load" /\ Has(ev.effect, "exit")) => epc \in {"finally", "done"}

AtPoll == epc \in {"getch", "finally", "done"}

C7_HiddenIffPaused ==
    \A t \in Tiles : ~Visible(slabs[t]) <=> workers[t].paused

\* C8: no arrangement pass raises: Grid.reserve never finds a cell of the
\* footprint it is given already reserved, with or without a global border.
C8_ArrangeNeverRaises == exc # "AssertionError"

\* C9: after Worker.stop() the Worker thread terminates: its run() is never
\* left waiting in queue.join() on tasks that nothing marks as done.
C9_StoppedWorkerEnds ==
    \A t \in Tiles :
        workers[t].stopped =>
            ~(workers[t].pc = "join" /\ JoinBlocks(unfinished[t]))

\* Tile.toggle twice on a tile whose queue stays empty
HideThenShow(t) ==
    LET c   == config.tiles[t]
        hid == TileToggle(slabs[t], <<>>, c)
    IN [hid |-> hid.tile, shown |-> TileToggle(hid.tile, <<>>, c).tile]

C11_OneDrainPerCycle ==
    \A t \in Tiles : frame.taken[t] <= 1

\* C12: in one frame every payload is taken from its queue before the first
\* Tile.update of the frame draws: no step takes a payload once the frame has
\* rendered.
C12_DrainBeforeRender ==
    [][ev'.got # 0 => ~frame.rendered]_vars

\* the steps of Worker.run, as `ev` names them
WorkerOps == {"tick", "wake", "check", "drop", "put", "join"}

\* C13: the pause key flips `paused` and changes no Worker, Tile or queue; the
\* quit key ends the main loop, paused or not; a frame that starts paused goes
\* straight to its key poll, and the step the Engine takes there is the poll
\* of one key, which while paused loads and toggles nothing.
C13_PauseAndQuit ==
    [][/\ ev'.op = "pause" =>
            /\ paused' = ~paused
            /\ epc' = (IF paused' THEN "getch" ELSE "load")
            /\ slabs' = slabs /\ workers' = workers /\ queues' = queues
       /\ ev'.op = "quit" => epc' = "finally"
       /\ (ev'.op \in {"pause", "key"} /\ paused') => epc' = "getch"
       /\ (epc = "getch" /\ ev'.op \notin WorkerOps) =>
            ev'.op \in {"quit", "pause", "key", "toggle"}
       /\ (epc = "getch" /\ paused /\ ev'.op \notin WorkerOps) =>
            /\ ev'.op \in {"quit", "pause", "key"}
            /\ ev'.got = 0 /\ slabs' = slabs /\ queues' = queues]_vars

\* C13 witness: the quit key ended the loop while the pause key had the Engine
\* paused, a running Worker's payload waiting unread in the queue.
C13_Witness ==
    /\ ev.op = "quit" /\ paused /\ ~halted
    /\ \E t \in Tiles : Len(queues[t]) = 1 /\ ~workers[t].paused

\* Tile.load of slab t on an empty queue
LoadOnEmpty(t) == TileLoad(slabs[t], <<>>, config.tiles[t])

\* C14: Tile.load on an empty queue returns no effect and leaves the tile as
\* it is, and the Engine never waits: inside a frame its next step can always
\* be taken (a load, the render, or a round of arrange, which has a slab to
\* place and a load that does not wait), and at the key poll a key or none is
\* always read, whatever the Workers are doing.
C14_LoadNeverBlocks ==
    /\ \A t \in Tiles :
          /\ LoadOnEmpty(t).tile = slabs[t]
          /\ LoadOnEmpty(t).effect = None
          /\ LoadOnEmpty(t).got = None
    /\ epc = "load" => ENABLED EngineLoad
    /\ epc = "render" => ENABLED EngineRender
    /\ epc = "arrange" => (alist # <<>> /\ ~LoadBlocks(queues[Head(alist)]))
    /\ epc = "getch" => ENABLED (\E key \in Keys : EngineGetch(key))

\* C14 witness: a frame loaded nothing, rendered and reached its key poll
\* while the Worker is still inside its first generator call.
C14_Witness ==
    /\ epc = "getch" /\ frame.rendered
    /\ \E t \in Tiles :
          workers[t].pc = "gen" /\ unfinished[t] = 0 /\ ~slabs[t].loaded

\* the step is the start of a tick of Worker t
TickOf(t) == ev'.op \in {"tick", "wake"} /\ ev'.t = t

\* C15: a tick of a Worker that starts with the paused flag set (and the
\* Worker not stopped) goes back to sleep without calling the generator and
\* without reading or writing the queue; a tick that starts with the flag
\* clear, also after skipped ticks, goes on to the queue check, the drop of a
\* stale item and the generator call with its put.
C15_PausedTickSkips ==
    [][\A t \in Tiles :
          /\ (TickOf(t) /\ workers[t].paused /\ ~workers[t].stopped) =>
                /\ workers'[t].pc = "sleep"
                /\ queues' = queues /\ unfinished' = unfinished
          /\ (TickOf(t) /\ ~workers[t].paused /\ ~workers[t].stopped) =>
                workers'[t].pc = "check"
          /\ (ev'.op = "check" /\ ev'.t = t) => workers'[t].pc \in {"get", "gen"}
          /\ (ev'.op = "drop" /\ ev'.t = t) => workers'[t].pc = "gen"
          /\ (ev'.op = "put" /\ ev'.t = t) =>
                /\ workers[t].pc = "gen"
                /\ unfinished'[t] = unfinished[t] + 1]_vars

\* C15 witness: a Worker that has published before and slept through a
\* skipped tick starts a tick with the flag cleared again and goes on to its
\* queue check.
C15_Witness ==
    /\ ev.op = "wake"
    /\ workers[ev.t].pc = "check" /\ ~workers[ev.t].paused
    /\ unfinished[ev.t] = 1

\* C16: after Worker.stop() the Worker makes at most one more put, and none
\* once its loop has seen `stopped` and gone on to queue.join(); `stopped`
\* once set stays set.
C16_StopEndsPublishing ==
    [][\A t \in Tiles :
          /\ workers'[t].late <= 1
          /\ workers[t].pc \in {"join", "done"} =>
                /\ workers'[t].pc \in {"join", "done"}
                /\ unfinished'[t] = unfinished[t] /\ queues'[t] = queues[t]
          /\ workers[t].stopped => workers'[t].stopped
          /\ (TickOf(t) /\ workers[t].stopped) => workers'[t].pc = "join"]_vars

\* C16 witness: stop() came while a generator call was in flight; the Worker
\* published its result and then left its loop.
C16_Witness ==
    \E t \in Tiles :
        workers[t].stopped /\ workers[t].late = 1 /\ workers[t].pc = "join"

\* [title] when the tile has a title, [] when it has none
TitleLines(t) ==
    IF IsNone(config.tiles[t].title) THEN <<>> ELSE <<Val(config.tiles[t].title)>>

\* C17: when a load takes a payload P from the queue of a visible tile, the
\* line buffer afterwards is [title] followed by P (P alone without a title),
\* for every P, the empty one included.
C17_LoadReplacesBuffer ==
    ev.got # 0 => slabs[ev.t].lines = TitleLines(ev.t) \o Val(ev.lines)

\* the pattern occurs in the line, at its start or further in
Occurs(pattern, line) ==
    \E off \in 0..(Len(line) - Len(pattern)) :
        \A j \in 1..Len(pattern) : line[off + j] = pattern[j]

\* the entries of tile t's action table whose pattern occurs in a line of the
\* tile's buffer
Matching(t) ==
    { k \in 1..Len(config.tiles[t].action) :
        \E i \in 1..Len(slabs[t].lines) :
            Occurs(config.tiles[t].action[k].pattern, slabs[t].lines[i]) }

\* the steps that call Tile.load, directly or through Tile.toggle
LoadOps == {"load", "arrange", "toggle"}

\* C18: a load that took a payload returns the effect of the first entry of
\* the action table, in table order, whose pattern occurs somewhere in a line
\* of the buffer the tile now holds, and no effect if there is none; a load
\* that took nothing returns no effect.
C18_FirstMatchWins ==
    /\ ev.got # 0 =>
          ev.effect =
            (IF Matching(ev.t) = {} THEN None
             ELSE Some(config.tiles[ev.t].action[
                          CHOOSE k \in Matching(ev.t) :
                              \A m \in Matching(ev.t) : k <= m].effect))
    /\ (ev.op \in LoadOps /\ ev.got = 0) => ev.effect = None

\* C18 witness: the buffer just loaded matches two entries of the table, the
\* second entry in an earlier line than the first and the first not at the
\* start of its line, and the effect of the first entry was returned.
C18_Witness ==
    /\ ev.op = "load" /\ ev.got # 0
    /\ Matching(ev.t) = {1, 2}
    /\ ev.effect = Some(config.tiles[ev.t].action[1].effect)
    /\ ev.lines = Some(PayBoth)

\* C19: Tile.load on a hidden tile (memory not None) does nothing: the load
\* loop's step for a hidden tile takes nothing from the queue, leaves every
\* tile as it is and returns no effect.
C19_HiddenLoadNoOp ==
    [][(ev'.op = "load" /\ ~Visible(slabs[li])) =>
          /\ slabs' = slabs /\ queues' = queues /\ lastGot' = lastGot
          /\ ev'.got = 0 /\ ev'.effect = None
          /\ paused' = paused]_vars

\* C19 witness: the load loop has just passed a hidden tile whose queue holds
\* a payload, and the payload is still there.
C19_Witness ==
    /\ ev.op = "load" /\ ev.got = 0
    /\ ~Visible(slabs[ev.t]) /\ Len(queues[ev.t]) = 1

\* the cells of the occupancy grid
GridCells(g) == { <<row, col>> : row \in 0..(g.rows - 1), col \in 0..(g.cols - 1) }

\* the cells [ypos, ypos+height) x [xpos, xpos+width) of a tile of shape c
FootprintOf(tile, c) ==
    { <<row, col>> : row \in tile.ypos..(tile.ypos + c.height - 1),
                     col \in tile.xpos..(tile.xpos + c.width - 1) }

\* the in-grid cells of the footprints of the slabs in `set`
Occupied(g, sl, set) ==
    UNION { FootprintOf(sl[t], config.tiles[t]) \cap GridCells(g) : t \in set }

\* the arrangement pass that follows when slab h is hidden by its toggle
PassWithout(h) ==
    LET sl == [slabs EXCEPT
                 ![h] = TileToggle(slabs[h], queues[h], config.tiles[h]).tile]
    IN ArrangePass(GridInit(term[1], term[2], config.border), sl,
                   VisibleFrom(sl, 1), {})

\* v is the first visible slab after h, and asks for the footprint h asks for
NextAlike(h, v) ==
    /\ h < v /\ Visible(slabs[v])
    /\ \A u \in (h + 1)..(v - 1) : ~Visible(slabs[u])
    /\ config.tiles[v].height = config.tiles[h].height
    /\ config.tiles[v].width = config.tiles[h].width

\* the last step ended an arrangement pass, and the pass did not raise
PassOver == ev.op = "arrange" /\ epc # "arrange" /\ exc = "none"

\* C20: a pass starts from an empty grid and searches and reserves visible
\* tiles only: while no reserve has raised, the occupied cells are exactly the
\* in-grid cells of the footprints of the slabs positioned in the pass, all of
\* them visible; and when a positioned, loaded slab h is then hidden, the next
\* pass reserves nothing for h and puts the next visible slab that asks for
\* the same footprint where h was.
C20_PassReservesVisibleOnly ==
    /\ exc = "none" => grid.data = Occupied(grid, slabs, placed)
    /\ PassOver => \A t \in placed : Visible(slabs[t])
    /\ PassOver =>
          \A h \in placed :
              slabs[h].loaded =>
                /\ h \notin PassWithout(h).placed
                /\ ~PassWithout(h).raised =>
                      PassWithout(h).grid.data =
                          Occupied(grid, PassWithout(h).slabs, PassWithout(h).placed)
                /\ \A v \in Tiles :
                      NextAlike(h, v) =>
                        /\ v \in PassWithout(h).placed
                        /\ PassWithout(h).slabs[v].ypos = slabs[h].ypos
                        /\ PassWithout(h).slabs[v].xpos = slabs[h].xpos

\* C20 witness: a pass over three loaded tiles, one of them hidden, placed the
\* other two side by side; were the first of them hidden, the second, of the
\* same shape, would take its place.
C20_Witness ==
    /\ PassOver /\ N = 3
    /\ ~Visible(slabs[2]) /\ placed = {1, 3}
    /\ slabs[1].loaded /\ NextAlike(1, 3)
    /\ <<slabs[3].ypos, slabs[3].xpos>> # <<slabs[1].ypos, slabs[1].xpos>>
    /\ PassWithout(1).placed = {3}


\* the top-left positions Grid.search may try: range(height) x range(width)
Candidates(g) ==
    { <<row, col>> : row \in 0..(g.height - 1), col \in 0..(g.width - 1) }

\* row-major order: top to bottom, and left to right within a row
Before(p, q) == p[1] < q[1] \/ (p[1] = q[1] /\ p[2] < q[2])

\* the candidates inquire accepts for the slab
Accepted(g, slab) ==
    { p \in Candidates(g) : ~IsNone(Inquire(g, p[1], p[2], slab)) }

LossAt(g, slab, p) == Val(Inquire(g, p[1], p[2], slab))

\* the candidates up to and including the first accepted one of loss zero
Scanned(g, slab) ==
    { p \in Candidates(g) :
        \A z \in Accepted(g, slab) : LossAt(g, slab, z) = 0 => ~Before(z, p) }

\* the position search returns for candidate p: p moved by the border offset
Returned(g, slab, p) ==
    [ypos |-> p[1] + BorderOffset(g), xpos |-> p[2] + BorderOffset(g),
     loss |-> LossAt(g, slab, p)]

\* the slab t as Grid.search and Grid.inquire read it
SlabOf(t) == Geometry(slabs[t], config.tiles[t])

\* C21: on every grid an arrangement pass builds and for every tile, search
\* returns None exactly when inquire rejects every scanned candidate (the
\* row-major scan ends at the first accepted candidate of loss zero), and
\* otherwise returns the accepted scanned candidate of least loss, the
\* earliest in scan order among those of equal loss.
C21_SearchFirstLeastLoss ==
    \A t \in Tiles :
        LET ok == Accepted(grid, SlabOf(t)) \cap Scanned(grid, SlabOf(t))
            res == Search(grid, SlabOf(t))
        IN /\ IsNone(res) <=> ok = {}
           /\ ~IsNone(res) =>
                 \E p \in ok :
                     /\ Val(res) = Returned(grid, SlabOf(t), p)
                     /\ \A q \in ok :
                           /\ LossAt(grid, SlabOf(t), p) <= LossAt(grid, SlabOf(t), q)
                           /\ LossAt(grid, SlabOf(t), q) = LossAt(grid, SlabOf(t), p)
                                 => ~Before(q, p)

\* C21 witness: on a grid with reserved cells, search returns for some tile a
\* candidate that comes after rejected ones and ties with a later one, for
\* some tile a candidate that comes after an accepted one of greater loss,
\* and for some tile a free candidate after the zero-loss one is not scanned.
C21_Witness ==
    /\ grid.data # {}
    /\ \E t \in Tiles :
          LET ok == Accepted(grid, SlabOf(t)) \cap Scanned(grid, SlabOf(t))
              res == Search(grid, SlabOf(t))
          IN /\ ~IsNone(res)
             /\ \E p \in ok, q \in ok :
                   /\ Val(res) = Returned(grid, SlabOf(t), p)
                   /\ Before(p, q)
                   /\ LossAt(grid, SlabOf(t), q) = LossAt(grid, SlabOf(t), p)
                   /\ \E e \in Candidates(grid) \ ok : Before(e, p)
    /\ \E t \in Tiles :
          LET ok == Accepted(grid, SlabOf(t)) \cap Scanned(grid, SlabOf(t))
              res == Search(grid, SlabOf(t))
          IN /\ ~IsNone(res)
             /\ \E p \in ok, e \in ok :
                   /\ Val(res) = Returned(grid, SlabOf(t), p)
                   /\ Before(e, p)
    /\ \E u \in Tiles :
          Accepted(grid, SlabOf(u)) \ Scanned(grid, SlabOf(u)) # {}


\* the cells [row, row+height) x [col, col+width) of the slab put at p
FootprintAt(slab, p) ==
    { <<row, col>> : row \in p[1]..(p[1] + slab.height - 1),
                     col \in p[2]..(p[2] + slab.width - 1) }

\* tile width x the footprint rows below the bottom edge, plus, for each
\* footprint row in the grid, its columns past the right edge
EdgeLoss(g, slab, p) ==
    slab.width * Cardinality({ row \in p[1]..(p[1] + slab.height - 1) : row >= g.rows })
    + Cardinality({ c \in FootprintAt(slab, p) : c[1] < g.rows /\ c[2] >= g.cols })

\* C22: for every tile and every candidate position on every grid a pass
\* builds, inquire returns None exactly when an in-grid cell of the footprint
\* is occupied, and otherwise a loss that is >= 0, is the number of footprint
\* cells below the bottom edge or past the right edge, and is zero exactly
\* when the footprint lies inside the grid.
C22_InquireLoss ==
    \A t \in Tiles : \A p \in Candidates(grid) :
        /\ IsNone(Inquire(grid, p[1], p[2], SlabOf(t)))
              <=> FootprintAt(SlabOf(t), p) \cap grid.data # {}
        /\ p \in Accepted(grid, SlabOf(t)) =>
              /\ LossAt(grid, SlabOf(t), p) >= 0
              /\ LossAt(grid, SlabOf(t), p) = EdgeLoss(grid, SlabOf(t), p)
              /\ LossAt(grid, SlabOf(t), p) = 0
                    <=> FootprintAt(SlabOf(t), p) \subseteq GridCells(grid)


\* the cells [0, rows) x [0, cols) of a terminal of the given size
ScreenCells(size) ==
    { <<y, x>> : y \in 0..(size[1] - 1), x \in 0..(size[2] - 1) }

\* C23: no addnstr request of a Tile.update (its draw_background included)
\* covers a cell outside [0, rows) x [0, cols) of the terminal, wherever the
\* tile is and whatever its shape, with or without a tile border.
C23_UpdateClipped ==
    \A i \in 1..Len(drawn) : Covers(drawn[i]) \subseteq ScreenCells(term)


\* C24: in the Stylist of every configuration, a request for a triple that
\* was registered before is given the handle of the first registration.
C24_SameTripleSameHandle ==
    \A i \in 1..Len(StylistSetup(config).issued) :
        \A j \in i..Len(StylistSetup(config).issued) :
            StylistSetup(config).issued[i].style = StylistSetup(config).issued[j].style
                => StylistSetup(config).issued[i].handle
                     = StylistSetup(config).issued[j].handle


\* the scanned candidates that are free and lie inside the grid
Fits(g, slab) ==
    { p \in Accepted(g, slab) \cap Scanned(g, slab) :
        FootprintAt(slab, p) \subseteq GridCells(g) }

\* C25: on every grid a pass builds and for every tile, when some scanned
\* candidate is free and inside the grid, the position search returns has its
\* footprint inside the grid.
C25_SearchPrefersFit ==
    \A t \in Tiles :
        Fits(grid, SlabOf(t)) # {} =>
            FootprintAt(SlabOf(t),
                        << Val(Search(grid, SlabOf(t))).ypos,
                           Val(Search(grid, SlabOf(t))).xpos >>)
                \subseteq GridCells(grid)


\* C26: a round of CTiles.arrange leaves every tile that was visible visible,
\* with the lines it had unless its load took a payload, whether or not
\* Grid.search found a position for it.
C26_ArrangeKeepsVisible ==
    [][ev'.op = "arrange" =>
          \A t \in Tiles :
              Visible(slabs[t]) =>
                  /\ Visible(slabs'[t])
                  /\ ev'.got = 0 => slabs'[t].lines = slabs[t].lines]_vars


\* C27: whenever a Tile.load takes a payload and returns a matching effect,
\* in the load loop of a frame, in the toggle after a toggle key or in a round
\* of CTiles.arrange, the Engine applies the effect: a halt effect leaves the
\* Engine paused.
C27_EffectsApplied ==
    (ev.got # 0 /\ ~IsNone(ev.effect)) =>
        /\ ev.applied
        /\ Has(ev.effect, "halt") => paused


\* C28: a Tile.load of the load loop whose effect does not carry halt: True
\* leaves `paused` as it is, and one whose effect does not carry exit: True
\* does not leave the load loop.
C28_FalseEffectsInert ==
    [][(ev'.op = "load" /\ ~IsNone(ev'.effect)) =>
          /\ Val(ev'.effect).halt # Some(TRUE) => paused' = paused
          /\ Val(ev'.effect).exit # Some(TRUE) =>
                epc' = IF li = N THEN "render" ELSE "load"]_vars

\* C29: no step of CTiles.__call__ raises KeyError on the style database.
C29_NoKeyError == exc # "KeyError"


\* C30: once CTiles.__call__ has returned or raised, stop() has been called on
\* every Worker.
C30_WorkersStopped == epc = "done" => \A t \in Tiles : workers[t].stopped


\* the requests of draw_background within the Tile.update of a tile
UpdateBackground(tile, c, size) ==
    TileDrawBackground(tile, c, size, tile.ypos,
                       Min(tile.ypos + c.height - 1, size[1] - 3),
                       Min(c.width, size[2] - 1 - tile.xpos)).reqs

\* no two adjacent spaces of the text str stand where the line src has two
\* adjacent whitespace characters
NoRunPair(src, str) ==
    \A k \in 1..(Len(str) - 1) :
        (k + 1 <= Len(src) /\ src[k] \in Whitespace /\ src[k + 1] \in Whitespace)
            => ~(str[k] = " " /\ str[k + 1] = " ")

\* C31: in the content rows Tile.update writes for a frame, no two adjacent
\* spaces come from one run of whitespace of the line the row shows: the
\* j-th content row shows line j of the tile.
C31_RunsCollapsed ==
    ev.op = "render" =>
        LET nbg == Len(UpdateBackground(slabs[1], config.tiles[1], term))
        IN \A j \in 1..(Len(drawn) - nbg) :
              j <= Len(slabs[1].lines) =>
                  NoRunPair(slabs[1].lines[j], drawn[nbg + j].str)

===========================================================================
